---- MODULE Spec2Model ----
(***************************************************************************)
(* A model of two parts of paradedb:                                       *)
(*   - pg_analytics/src/hooks/executor.rs: executor_run, the executor hook *)
(*     that routes a statement to the insert/select/delete handlers or to  *)
(*     the previous hook (the continuation), and create_logical_plan;      *)
(*   - pg_bm25/src/index/state.rs: SearchState (new, key_field_value,      *)
(*     search, search_dedup, doc).                                         *)
(* Spec is a session: a sequence of executor_run calls sharing the write   *)
(* buffer of the session.  SearchSpec is the life of the SearchStates made *)
(* on one index.  IsolationSpec adds the writers that advance the index    *)
(* while a SearchState lives, and the fetches of single documents.         *)
(***************************************************************************)
EXTENDS Integers, Sequences, FiniteSets, TLC

VARIABLES
    pc,             \* position of the current executor_run call
    operation,      \* query_desc.operation
    rtable,         \* (*ps).rtable: the ownership tag of each relation
    sourceText,     \* query_desc.sourceText, a sequence of characters
    query,          \* the string current_query_string returned
    planOutcome,    \* what create_logical_plan does with this text
    pending,        \* the session has buffered, uncommitted writes
    pendingAtEntry, \* value of pending when the current call started
    flush,          \* commit_writer of the current call
    trace,          \* the calls made by the current executor_run, in order
    failed,         \* the call of the current executor_run that failed
    result,         \* what the current executor_run returned
    sstate,         \* life of the SearchState
    config,         \* SearchState.config (query, limit_rows, offset_rows)
    searcher,       \* SearchState.searcher: the bound snapshot
    collector,      \* the limit handed to TopDocs::with_limit by each search,
                    \* and the offset handed to and_offset when it returned
    results,        \* what search() returned
    index,          \* the documents of the SearchIndex, as its writers left it
    compiled,       \* SearchState.query: the compiled query
    key_field_name, \* SearchState.key_field_name
    deduped,        \* what the iterator search_dedup() returned yields
    fetched         \* what the last key_field_value() or doc() returned

execVars == <<pc, operation, rtable, sourceText, query, planOutcome, pending,
              pendingAtEntry, flush, trace, failed, result>>
searchVars == <<sstate, config, searcher, collector, results, index, compiled,
                key_field_name, deduped, fetched>>
vars == <<pc, operation, rtable, sourceText, query, planOutcome, pending,
          pendingAtEntry, flush, trace, failed, result, sstate, config, searcher,
          collector, results, index, compiled, key_field_name, deduped, fetched>>

---------------------------------------------------------------------------
(* Bounds of the model *)

\* longest range table
MaxRtable == 2

\* most documents of a snapshot
MaxDocs == 3

\* greatest explicit limit_rows and offset_rows
MaxLimit == 2
MaxOffset == 1

\* most calls of search() on one SearchState
MaxSearches == 2

\* most documents the writers commit to an index that starts empty
MaxCommits == 2

---------------------------------------------------------------------------
(* The statement *)

\* pg_sys::CmdType: the four kinds executor_run names, and any other kind
Operations == {"SELECT", "INSERT", "UPDATE", "DELETE", "UTILITY"}

\* a relation of the range table is owned by the embedded engine or the host
Ownership == {"embedded", "host"}

\* a NIL list is a null pointer: the empty range table is the null one
RangeTables == UNION {[1..n -> Ownership] : n \in 0..MaxRtable}

\* source texts, as sequences of characters
QueryTexts ==
    { <<"c", "o", "p", "y", " ", "t">>,
      <<"C", "O", "P", "Y", " ", "t">>,
      <<"C", "o", "p", "Y">>,
      <<"c", "o", "p", "y", "x">>,
      <<" ", "c", "o", "p", "y">>,
      <<"c", "o", "p">>,
      <<"s", "e", "l", "e", "c", "t", " ", "1">>,
      <<"u", "p", "d", "a", "t", "e", " ", "t">>,
      <<";">> }

\* what the plan translator makes of a text: a plan, a parse error of the
\* dialect, an error of the catalog (QueryContext::new, statement_to_plan),
\* or a parse that holds no statement at all
PlanOutcomes == {"plan", "parse_error", "resolve_error", "no_statement"}

\* what it can make of one text: ";" parses, to no statement; a text with
\* words parses to a statement or not, and its names resolve or not
PlanOutcomesOf(text) ==
    IF text = <<";">> THEN {"no_statement"} ELSE PlanOutcomes \ {"no_statement"}

\* str::to_lowercase, on the characters the texts use
ToLowerChar(c) ==
    CASE c = "C" -> "c"
      [] c = "O" -> "o"
      [] c = "P" -> "p"
      [] c = "Y" -> "y"
      [] OTHER -> c

ToLowercase(s) == [i \in 1..Len(s) |-> ToLowerChar(s[i])]

\* str::starts_with
StartsWith(s, prefix) ==
    /\ Len(s) >= Len(prefix)
    /\ SubSeq(s, 1, Len(prefix)) = prefix

CopyLiteral == <<"c", "o", "p", "y">>

\* a variant of IsCopy: no to_lowercase
IsCopyCaseSensitive(q) == StartsWith(q, CopyLiteral)

\* query.to_lowercase().starts_with("copy")
IsCopy(q) == StartsWith(ToLowercase(q), CopyLiteral)

\* rtable.is_null()
IsNull(rt) == rt = <<>>

\* some relation of the range table is owned by the embedded engine
HasEmbedded(rt) == \E i \in 1..Len(rt) : rt[i] = "embedded"

\* rtable.is_column()?: true, false, or a failure
IsColumnOutcomes(rt) == {"err", IF HasEmbedded(rt) THEN "true" ELSE "false"}

\* needs_commit()?: the session's pending flag, or a failure
NeedsCommitOutcomes(p) == {"err", IF p THEN "true" ELSE "false"}

\* task::block_on(commit_writer())?
CommitWriterOutcomes == {"ok", "err"}

\* current_query_string(sourceText)?: the text of the statement, or a failure
CurrentQueryStringOutcomes(text) == {<<"ok", text>>, <<"err", <<>>>>}

\* whether the statement the continuation ran left writes in the buffer
BufferedAfterPrevHook(op, rt, p) ==
    IF op = "INSERT" /\ HasEmbedded(rt) THEN {p, TRUE} ELSE {p}

\* the values executor_run returns, and the abort of a panic
Ok == <<"Ok">>
Err(what) == <<"Err", what>>
Panic == <<"panic">>
NoResult == <<"none">>

---------------------------------------------------------------------------
(* executor_run, step by step *)

\* a variant of AfterNeedsCommit: the flush is skipped although writes are
\* pending
AfterNeedsCommitSkipsFlush(r) ==
    CASE r = "err" -> "done"
      [] OTHER -> "query_string"

\* `if needs_commit()? { ... }`: where the call goes after the check
AfterNeedsCommit(r) ==
    CASE r = "err" -> "done"
      [] r = "true" -> "commit_writer"
      [] OTHER -> "query_string"

\* a variant of AfterCommitWriter: the flush's Result is dropped
AfterCommitWriterIgnoresFailure(r) == "query_string"

\* `task::block_on(commit_writer())?`: where the call goes after the flush
AfterCommitWriter(r) == IF r = "ok" THEN "query_string" ELSE "done"

\* the condition of lines 48-52, evaluated left to right; col is the outcome
\* of is_column, which is evaluated only when the two tests before it fail
RouteOutcome(op, rt, q, col) ==
    IF IsNull(rt) \/ op = "INSERT" THEN "prev_hook"
    ELSE IF col = "err" THEN "err"
    ELSE IF col = "false" THEN "prev_hook"
    ELSE IF IsCopy(q) THEN "prev_hook"
    ELSE "translate"

\* a variant of TranslateOutcome: the Result is unwrapped
TranslateOutcomeUnwrap(po) ==
    CASE po = "plan" -> "dispatch"
      [] OTHER -> "panic"

\* the match on create_logical_plan's result, lines 59-66 and 82-93
TranslateOutcome(po) ==
    CASE po = "plan" -> "dispatch"
      [] po = "no_statement" -> "panic"
      [] OTHER -> "prev_hook"

\* a variant of DispatchTarget: no arm for UPDATE
DispatchTargetUpdateDelegated(op) ==
    CASE op = "DELETE" -> "delete"
      [] op = "SELECT" -> "select"
      [] OTHER -> "prev_hook"

\* a variant of DispatchTarget: the arms of DELETE and SELECT are exchanged
DispatchTargetSwapped(op) ==
    CASE op = "DELETE" -> "select"
      [] op = "SELECT" -> "delete"
      [] op = "UPDATE" -> "not_supported"
      [] OTHER -> "prev_hook"

\* the match on query_desc.operation, lines 69-77
DispatchTarget(op) ==
    CASE op = "DELETE" -> "delete"
      [] op = "SELECT" -> "select"
      [] op = "UPDATE" -> "not_supported"
      [] OTHER -> "prev_hook"

\* a variant of HandlerReturn: the handler's failure is dropped
HandlerReturnSwallowsFailure(handler, ok) == Ok

\* lines 70-71: the handler's Result is executor_run's
HandlerReturn(handler, ok) == IF ok THEN Ok ELSE Err(handler)

\* the host executes one more statement of the session
Call ==
    /\ pc = "idle"
    /\ operation' \in Operations
    /\ rtable' \in RangeTables
    /\ sourceText' \in QueryTexts
    /\ planOutcome' \in PlanOutcomesOf(sourceText')
    /\ pendingAtEntry' = pending
    /\ pc' = "needs_commit"
    /\ UNCHANGED <<query, pending, flush, trace, failed, result>>
    /\ UNCHANGED searchVars

\* line 31: needs_commit()?
NeedsCommit ==
    /\ pc = "needs_commit"
    /\ \E r \in NeedsCommitOutcomes(pending) :
         /\ pc' = AfterNeedsCommit(r)
         /\ failed' = IF r = "err" THEN "needs_commit" ELSE failed
         /\ result' = IF r = "err" THEN Err("needs_commit") ELSE result
    /\ trace' = Append(trace, "needs_commit")
    /\ UNCHANGED <<operation, rtable, sourceText, query, planOutcome, pending,
                   pendingAtEntry, flush>>
    /\ UNCHANGED searchVars

\* a variant of CommitWriterStart: the flush is started and not waited for
CommitWriterNotAwaited ==
    /\ pc = "commit_writer"
    /\ flush' = "running"
    /\ trace' = Append(trace, "commit_start")
    /\ pc' = "query_string"
    /\ UNCHANGED <<operation, rtable, sourceText, query, planOutcome, pending,
                   pendingAtEntry, failed, result>>
    /\ UNCHANGED searchVars

\* line 32: commit_writer() is started and block_on waits for it
CommitWriterStart ==
    /\ pc = "commit_writer"
    /\ flush' = "running"
    /\ trace' = Append(trace, "commit_start")
    /\ pc' = "block_on"
    /\ UNCHANGED <<operation, rtable, sourceText, query, planOutcome, pending,
                   pendingAtEntry, failed, result>>
    /\ UNCHANGED searchVars

\* line 32: the flush ends; `?` returns its failure
CommitWriterFinish ==
    /\ pc = "block_on"
    /\ flush = "running"
    /\ \E r \in CommitWriterOutcomes :
         /\ flush' = IF r = "ok" THEN "done" ELSE "failed"
         /\ pending' = IF r = "ok" THEN FALSE ELSE pending
         /\ pc' = AfterCommitWriter(r)
         /\ failed' = IF r = "ok" THEN failed ELSE "commit_writer"
         /\ result' = IF r = "ok" THEN result ELSE Err("commit_writer")
    /\ trace' = Append(trace, "commit_end")
    /\ UNCHANGED <<operation, rtable, sourceText, query, planOutcome,
                   pendingAtEntry>>
    /\ UNCHANGED searchVars

\* lines 36-40: current_query_string(CStr::from_ptr(sourceText))?
QueryString ==
    /\ pc = "query_string"
    /\ \E r \in CurrentQueryStringOutcomes(sourceText) :
         /\ query' = r[2]
         /\ pc' = IF r[1] = "ok" THEN "insert" ELSE "done"
         /\ failed' = IF r[1] = "ok" THEN failed ELSE "query_string"
         /\ result' = IF r[1] = "ok" THEN result ELSE Err("query_string")
    /\ UNCHANGED <<operation, rtable, sourceText, planOutcome, pending,
                   pendingAtEntry, flush, trace>>
    /\ UNCHANGED searchVars

\* lines 42-44: insert(rtable, query_desc.clone())? when the operation is INSERT
Insert ==
    /\ pc = "insert"
    /\ IF operation = "INSERT"
       THEN \E ok \in BOOLEAN :
              /\ trace' = Append(trace, "insert")
              /\ pc' = IF ok THEN "route" ELSE "done"
              /\ failed' = IF ok THEN failed ELSE "insert"
              /\ result' = IF ok THEN result ELSE Err("insert")
       ELSE /\ pc' = "route"
            /\ UNCHANGED <<trace, failed, result>>
    /\ UNCHANGED <<operation, rtable, sourceText, query, planOutcome, pending,
                   pendingAtEntry, flush>>
    /\ UNCHANGED searchVars

\* prev_hook(query_desc, direction, count, execute_once); return Ok(()),
\* after the calls `calls` of the same step; prev_hook is taken to return,
\* and what it returns is dropped
PrevHookAndReturn(calls) ==
    /\ trace' = trace \o calls \o <<"prev_hook">>
    /\ pending' \in BufferedAfterPrevHook(operation, rtable, pending)
    /\ result' = Ok
    /\ pc' = "done"

\* lines 48-56: the statements left to the host
Route ==
    /\ pc = "route"
    /\ \E col \in IsColumnOutcomes(rtable) :
         LET to == RouteOutcome(operation, rtable, query, col) IN
         CASE to = "prev_hook" ->
                /\ PrevHookAndReturn(<<>>)
                /\ UNCHANGED failed
           [] to = "err" ->
                /\ failed' = "is_column"
                /\ result' = Err("is_column")
                /\ pc' = "done"
                /\ UNCHANGED <<trace, pending>>
           [] OTHER ->
                /\ pc' = "translate"
                /\ UNCHANGED <<trace, pending, failed, result>>
    /\ UNCHANGED <<operation, rtable, sourceText, query, planOutcome,
                   pendingAtEntry, flush>>
    /\ UNCHANGED searchVars

\* lines 59-66: create_logical_plan(&query); an Err goes to the host
Translate ==
    /\ pc = "translate"
    /\ LET to == TranslateOutcome(planOutcome) IN
       CASE to = "dispatch" ->
              /\ trace' = Append(trace, "create_logical_plan")
              /\ pc' = "dispatch"
              /\ UNCHANGED <<pending, failed, result>>
         [] to = "panic" ->
              /\ trace' = Append(trace, "create_logical_plan")
              /\ failed' = "create_logical_plan"
              /\ result' = Panic
              /\ pc' = "done"
              /\ UNCHANGED pending
         [] OTHER ->
              /\ PrevHookAndReturn(<<"create_logical_plan">>)
              /\ failed' = "create_logical_plan"
    /\ UNCHANGED <<operation, rtable, sourceText, query, planOutcome,
                   pendingAtEntry, flush>>
    /\ UNCHANGED searchVars

\* lines 69-77: SELECT, DELETE, UPDATE, and the rest
Dispatch ==
    /\ pc = "dispatch"
    /\ LET to == DispatchTarget(operation) IN
       CASE to \in {"delete", "select"} ->
              \E ok \in BOOLEAN :
                /\ trace' = Append(trace, to)
                /\ failed' = IF ok THEN failed ELSE to
                /\ result' = HandlerReturn(to, ok)
                /\ pc' = "done"
                /\ UNCHANGED pending
         [] to = "not_supported" ->
              /\ result' = Err("NotSupported::Update")
              /\ pc' = "done"
              /\ UNCHANGED <<trace, pending, failed>>
         [] OTHER ->
              /\ PrevHookAndReturn(<<>>)
              /\ UNCHANGED failed
    /\ UNCHANGED <<operation, rtable, sourceText, query, planOutcome,
                   pendingAtEntry, flush>>
    /\ UNCHANGED searchVars

\* executor_run has returned and the statement is discarded; the session,
\* with its write buffer, goes on
Return ==
    /\ pc = "done"
    /\ pc' = "idle"
    /\ operation' = "SELECT"
    /\ rtable' = <<>>
    /\ sourceText' = <<>>
    /\ query' = <<>>
    /\ planOutcome' = "plan"
    /\ pendingAtEntry' = FALSE
    /\ flush' = "idle"
    /\ trace' = <<>>
    /\ failed' = "none"
    /\ result' = NoResult
    /\ UNCHANGED pending
    /\ UNCHANGED searchVars

ExecIdle ==
    /\ pc = "idle"
    /\ operation = "SELECT"
    /\ rtable = <<>>
    /\ sourceText = <<>>
    /\ query = <<>>
    /\ planOutcome = "plan"
    /\ pendingAtEntry = FALSE
    /\ flush = "idle"
    /\ trace = <<>>
    /\ failed = "none"
    /\ result = NoResult

---------------------------------------------------------------------------
(* SearchState *)

\* Option<usize>: None, and Some(n)
None == <<>>
Some(n) == <<n>>

\* config.query: an expression that matches every document, one that matches
\* no document, and one that into_tantivy_query fails to compile
Queries == {"all", "nothing", "invalid"}

\* SearchConfig: limit_rows and offset_rows are Option<usize>
Configs ==
    [query : Queries,
     limit_rows : {None} \cup {Some(n) : n \in 0..MaxLimit},
     offset_rows : {None} \cup {Some(n) : n \in 0..MaxOffset}]

NoConfig == [query |-> "all", limit_rows |-> None, offset_rows |-> None]

\* DocAddress: (segment ordinal, document id)
AddressPool == {<<0, 1>>, <<0, 2>>, <<0, 3>>, <<1, 0>>}

\* the key field's values and the relevance scores of the documents
Keys == {5, 7}
Bm25s == {1, 2}

\* a snapshot: the documents a Searcher sees, by address
Snapshots ==
    UNION {[as -> [key : Keys, bm25 : Bm25s]] :
             as \in {x \in SUBSET AddressPool : Cardinality(x) <= MaxDocs}}

\* self.searcher.num_docs() as usize
NumDocs(snap) == Cardinality(DOMAIN snap)

\* a variant of EffectiveLimit: the default is num_docs, also when it is 0
EffectiveLimitNumDocs(cfg, snap) ==
    IF cfg.limit_rows # None THEN cfg.limit_rows[1] ELSE NumDocs(snap)

\* lines 73-83: config.limit_rows.unwrap_or_else(...)
EffectiveLimit(cfg, snap) ==
    IF cfg.limit_rows # None THEN cfg.limit_rows[1]
    ELSE IF NumDocs(snap) > 0 THEN NumDocs(snap)
    ELSE 1

\* line 85: config.offset_rows.unwrap_or(0)
EffectiveOffset(cfg) ==
    IF cfg.offset_rows # None THEN cfg.offset_rows[1] ELSE 0

\* the documents of the snapshot the compiled query matches
Hits(cfg, snap) == IF cfg.query = "all" THEN DOMAIN snap ELSE {}

\* the orders of a set of documents of a snapshot by descending score, the
\* documents of equal score in any order
RECURSIVE OrdersOf(_, _)
OrdersOf(snap, docs) ==
    IF docs = {} THEN {<<>>}
    ELSE UNION {{<<a>> \o t : t \in OrdersOf(snap, docs \ {a})} :
                  a \in {x \in docs : \A y \in docs : snap[x].bm25 >= snap[y].bm25}}

\* the matched documents in any order of descending score
RankedOrders(cfg, snap) == OrdersOf(snap, Hits(cfg, snap))

Min(a, b) == IF a <= b THEN a ELSE b

\* lines 87-109: the (SearchIndexScore, DocAddress) pairs the collector keeps
\* of one ranked order: `lim` of them after the first `off`
Collected(snap, order, lim, off) ==
    LET window == SubSeq(order, off + 1, Min(off + lim, Len(order)))
    IN  [i \in 1..Len(window) |->
           <<[bm25 |-> snap[window[i]].bm25, key |-> snap[window[i]].key],
             window[i]>>]

\* DocAddress derives Ord: the segment ordinal first, then the document id
AddressGreater(a, b) == a[1] > b[1] \/ (a[1] = b[1] /\ a[2] > b[2])

\* HashMap::insert and HashMap::remove, on a map held as a function
MapInsert(map, key, entry) ==
    [k \in (DOMAIN map) \cup {key} |-> IF k = key THEN entry ELSE map[k]]

MapRemove(map, key) == [k \in (DOMAIN map) \ {key} |-> map[k]]

\* lines 118-119: dedup_map and order_vec before the loop
EmptyDedup == [map |-> <<>>, order |-> <<>>]

\* a variant of DedupStep: the entry with the smaller address wins
DedupStepKeepsLower(acc, entry) ==
    LET key == entry[1].key
        is_new_or_lower ==
            IF key \in DOMAIN acc.map
            THEN AddressGreater(acc.map[key][2], entry[2])
            ELSE TRUE
    IN  IF ~is_new_or_lower THEN acc
        ELSE [map |-> MapInsert(acc.map, key, entry),
              order |-> IF key \in DOMAIN acc.map THEN acc.order
                        ELSE Append(acc.order, key)]

\* lines 121-131: one turn of the loop over search_results; the key is pushed
\* on order_vec only when insert() found no entry under it
DedupStep(acc, entry) ==
    LET key == entry[1].key
        is_new_or_higher ==
            IF key \in DOMAIN acc.map
            THEN AddressGreater(entry[2], acc.map[key][2])
            ELSE TRUE
    IN  IF ~is_new_or_higher THEN acc
        ELSE [map |-> MapInsert(acc.map, key, entry),
              order |-> IF key \in DOMAIN acc.map THEN acc.order
                        ELSE Append(acc.order, key)]

\* lines 121-131: the loop
RECURSIVE DedupFold(_, _)
DedupFold(acc, rs) ==
    IF Len(rs) = 0 THEN acc
    ELSE DedupFold(DedupStep(acc, rs[1]), SubSeq(rs, 2, Len(rs)))

\* lines 133-135: order_vec.into_iter().filter_map(|key| dedup_map.remove(&key))
RECURSIVE DedupEmit(_, _)
DedupEmit(map, order) ==
    IF Len(order) = 0 THEN <<>>
    ELSE LET key == order[1]
             rest == SubSeq(order, 2, Len(order))
         IN  IF key \in DOMAIN map
             THEN <<map[key]>> \o DedupEmit(MapRemove(map, key), rest)
             ELSE DedupEmit(map, rest)

\* a variant of SearchDedupOutput: the results of search() as they are
SearchDedupOutputUnfolded(rs) == rs

\* lines 118-135: what search_dedup makes of the results of search()
SearchDedupOutput(rs) ==
    LET acc == DedupFold(EmptyDedup, rs)
    IN  DedupEmit(acc.map, acc.order)

\* schema.key_field().name.0
KeyFieldName == "id"

\* what key_field_value() and doc() return
NoFetch == [op |-> "none", ok |-> TRUE, key |-> 0]

\* an index without documents
EmptyIndex == <<>>

\* a variant of SearchNew: a query that does not compile is replaced by the
\* query that matches every document
SearchNewFallsBack ==
    /\ sstate = "none"
    /\ \E cfg \in Configs :
         /\ config' = cfg
         /\ sstate' = "created"
         /\ compiled' = IF cfg.query = "invalid" THEN Some("all") ELSE Some(cfg.query)
         /\ key_field_name' = KeyFieldName
         /\ searcher' = index
    /\ UNCHANGED <<collector, results, index, deduped, fetched>>
    /\ UNCHANGED execVars

\* lines 24-42: SearchState::new; a query that does not compile panics, and
\* line 38 binds the searcher of the index as it is now
SearchNew ==
    /\ sstate = "none"
    /\ \E cfg \in Configs :
         /\ config' = cfg
         /\ IF cfg.query = "invalid"
            THEN /\ sstate' = "new_panicked"
                 /\ compiled' = None
                 /\ key_field_name' = ""
                 /\ searcher' = <<>>
            ELSE /\ sstate' = "created"
                 /\ compiled' = Some(cfg.query)
                 /\ key_field_name' = KeyFieldName
                 /\ searcher' = index
    /\ UNCHANGED <<collector, results, index, deduped, fetched>>
    /\ UNCHANGED execVars

\* lines 107-109: self.searcher.search(...) returns the documents or an Err
SearcherSearchOutcomes == {"ok", "err"}

\* lines 73-110: the body of search(); TopDocs::with_limit panics on 0,
\* before and_offset is called, and expect("failed to search") panics on an
\* Err of the searcher; the key field is an i64 fast field in every index
\* here, so that lines 95-97 do not panic
RunSearch ==
    LET lim == EffectiveLimit(config, searcher)
        off == EffectiveOffset(config)
    IN  IF lim = 0
        THEN /\ collector' = Append(collector, [limit |-> lim, offset |-> None])
             /\ sstate' = "search_panicked"
             /\ results' = <<>>
        ELSE /\ collector' =
                  Append(collector, [limit |-> lim, offset |-> Some(off)])
             /\ \E r \in SearcherSearchOutcomes :
                  IF r = "err"
                  THEN /\ sstate' = "search_panicked"
                       /\ results' = <<>>
                  ELSE /\ sstate' = "executed"
                       /\ \E order \in RankedOrders(config, searcher) :
                            results' = Collected(searcher, order, lim, off)

\* a variant of Search: the searcher is opened again on the index
SearchReopensSearcher ==
    /\ sstate \in {"created", "executed"}
    /\ Len(collector) < MaxSearches
    /\ RunSearch
    /\ searcher' = index
    /\ deduped' = None
    /\ UNCHANGED <<config, index, compiled, key_field_name, fetched>>
    /\ UNCHANGED execVars

\* lines 71-110: SearchState::search, which borrows the instance
Search ==
    /\ sstate \in {"created", "executed"}
    /\ Len(collector) < MaxSearches
    /\ RunSearch
    /\ deduped' = None
    /\ UNCHANGED <<config, searcher, index, compiled, key_field_name, fetched>>
    /\ UNCHANGED execVars

\* lines 116-136: SearchState::search_dedup: search(), then the fold by key
SearchDedup ==
    /\ sstate \in {"created", "executed"}
    /\ Len(collector) < MaxSearches
    /\ RunSearch
    /\ deduped' = IF sstate' = "executed"
                  THEN Some(SearchDedupOutput(results'))
                  ELSE None
    /\ UNCHANGED <<config, searcher, index, compiled, key_field_name, fetched>>
    /\ UNCHANGED execVars

\* lines 44-65: SearchState::key_field_value; a document the searcher does
\* not hold panics
KeyFieldValue ==
    /\ sstate \in {"created", "executed"}
    /\ \E doc_address \in AddressPool :
         IF doc_address \in DOMAIN searcher
         THEN /\ fetched' = [op |-> "key_field_value", ok |-> TRUE,
                             key |-> searcher[doc_address].key]
              /\ UNCHANGED sstate
         ELSE /\ fetched' = NoFetch
              /\ sstate' = "fetch_panicked"
    /\ UNCHANGED <<config, searcher, collector, results, index, compiled,
                   key_field_name, deduped>>
    /\ UNCHANGED execVars

\* lines 139-141: SearchState::doc; a document the searcher does not hold is
\* an Err
Doc ==
    /\ sstate \in {"created", "executed"}
    /\ \E doc_address \in AddressPool :
         fetched' = IF doc_address \in DOMAIN searcher
                    THEN [op |-> "doc", ok |-> TRUE,
                          key |-> searcher[doc_address].key]
                    ELSE [op |-> "doc", ok |-> FALSE, key |-> 0]
    /\ UNCHANGED <<sstate, config, searcher, collector, results, index,
                   compiled, key_field_name, deduped>>
    /\ UNCHANGED execVars

\* the address a writer gives the next document: the least one after those
\* the index holds
NextAddress(idx) ==
    LET free == {a \in AddressPool : \A b \in DOMAIN idx : AddressGreater(a, b)}
    IN  CHOOSE a \in free : \A b \in free \ {a} : AddressGreater(b, a)

\* a writer elsewhere commits one more document to the index
IndexCommit ==
    /\ NumDocs(index) < MaxCommits
    /\ \E d \in [key : Keys, bm25 : Bm25s] :
         index' = [x \in (DOMAIN index) \cup {NextAddress(index)} |->
                     IF x = NextAddress(index) THEN d ELSE index[x]]
    /\ UNCHANGED <<sstate, config, searcher, collector, results, compiled,
                   key_field_name, deduped, fetched>>
    /\ UNCHANGED execVars

\* the SearchState is dropped, or the panic has unwound
SearchDrop ==
    /\ sstate # "none"
    /\ sstate' = "none"
    /\ config' = NoConfig
    /\ searcher' = <<>>
    /\ collector' = <<>>
    /\ results' = <<>>
    /\ compiled' = None
    /\ key_field_name' = ""
    /\ deduped' = None
    /\ fetched' = NoFetch
    /\ UNCHANGED index
    /\ UNCHANGED execVars

SearchIdle ==
    /\ sstate = "none"
    /\ config = NoConfig
    /\ searcher = <<>>
    /\ collector = <<>>
    /\ results = <<>>
    /\ compiled = None
    /\ key_field_name = ""
    /\ deduped = None
    /\ fetched = NoFetch

\* a session starts with an empty write buffer
Init ==
    /\ ExecIdle
    /\ pending = FALSE
    /\ SearchIdle
    /\ index = EmptyIndex

Next ==
    \/ Call
    \/ NeedsCommit
    \/ CommitWriterStart
    \/ CommitWriterFinish
    \/ QueryString
    \/ Insert
    \/ Route
    \/ Translate
    \/ Dispatch
    \/ Return

Spec == Init /\ [][Next]_vars

\* no SearchState yet, on an index in any state
SearchInit ==
    /\ ExecIdle
    /\ pending = FALSE
    /\ SearchIdle
    /\ index \in Snapshots

SearchNext ==
    \/ SearchNew
    \/ Search
    \/ SearchDedup
    \/ SearchDrop

SearchSpec == SearchInit /\ [][SearchNext]_vars

\* no SearchState yet, on an index that writers fill
IsolationInit ==
    /\ ExecIdle
    /\ pending = FALSE
    /\ SearchIdle
    /\ index = EmptyIndex

IsolationNext ==
    \/ SearchNew
    \/ Search
    \/ SearchDedup
    \/ KeyFieldValue
    \/ Doc
    \/ IndexCommit
    \/ SearchDrop

IsolationSpec == IsolationInit /\ [][IsolationNext]_vars

---------------------------------------------------------------------------
(* What one call of executor_run did *)

\* how often the current call made the call `c`
Count(c) == Cardinality({i \in 1..Len(trace) : trace[i] = c})

\* the place of the first call `c` in the trace, 0 when there is none
Pos(c) ==
    IF Count(c) = 0 THEN 0
    ELSE CHOOSE i \in 1..Len(trace) :
           trace[i] = c /\ \A j \in 1..(i - 1) : trace[j] # c

\* executor_run has returned
Returned == pc = "done"

\* the embedded handlers invoked
HandlerCalls == Count("insert") + Count("select") + Count("delete")

\* the call ended in lines 31-40, before the statement was looked at
PreambleFailed == failed \in {"needs_commit", "commit_writer", "query_string"}

\* the call ended before the plan translator or the continuation was reached
EarlyFailed == PreambleFailed \/ failed \in {"insert", "is_column"}

\* the plan translator returns an error for the text
Rejected == planOutcome \in {"parse_error", "resolve_error"}

\* the source text, lowercased and not trimmed, begins with "copy"
BeginsWithCopy ==
    /\ Len(sourceText) >= 4
    /\ ToLowerChar(sourceText[1]) = "c"
    /\ ToLowerChar(sourceText[2]) = "o"
    /\ ToLowerChar(sourceText[3]) = "p"
    /\ ToLowerChar(sourceText[4]) = "y"

---------------------------------------------------------------------------
(* C1 *)

\* C1, for the INSERTs in whose call nothing fails: the call invoked either
\* the continuation exactly once and no handler, or exactly one handler
\* exactly once and not the continuation, never both.
C1_ExactlyOneOfContinuationOrHandler ==
    (Returned /\ operation = "INSERT" /\ failed = "none") =>
        \/ Count("prev_hook") = 1 /\ HandlerCalls = 0
        \/ Count("prev_hook") = 0 /\ HandlerCalls = 1

---------------------------------------------------------------------------
(* C2 *)

\* C2, as stated, on the calls that reach line 42: an INSERT whose range
\* table holds an embedded-engine relation runs the insert handler and never
\* the continuation.
C2_InsertNeverDelegates ==
    (Returned /\ operation = "INSERT" /\ HasEmbedded(rtable) /\ ~PreambleFailed) =>
        /\ Count("insert") = 1
        /\ Count("prev_hook") = 0

---------------------------------------------------------------------------
(* C3 *)

\* C3, as stated, for the texts it names last, those the plan translator
\* fails on: an UPDATE whose range table holds an embedded-engine relation
\* returns NotSupported::Update and never invokes the continuation.
C3_UpdateAlwaysNotSupported ==
    (Returned /\ operation = "UPDATE" /\ HasEmbedded(rtable) /\ Rejected
       /\ failed = "create_logical_plan") =>
        /\ result = Err("NotSupported::Update")
        /\ Count("prev_hook") = 0

\* C3, amended: such a call returns NotSupported::Update, invoking neither
\* the continuation nor a handler, exactly when the text does not begin with
\* "copy" and the plan translator returns a plan; when the text begins with
\* "copy" or the translator returns an error, the continuation is invoked
\* once and success returned; a text without a statement aborts the call.
C3_UpdateNotSupportedAfterTranslation ==
    (Returned /\ operation = "UPDATE" /\ HasEmbedded(rtable) /\ ~EarlyFailed) =>
        /\ HandlerCalls = 0
        /\ IF BeginsWithCopy
           THEN /\ result = Ok
                /\ Count("prev_hook") = 1
                /\ Count("create_logical_plan") = 0
           ELSE /\ Count("create_logical_plan") = 1
                /\ planOutcome = "plan" =>
                     result = Err("NotSupported::Update") /\ Count("prev_hook") = 0
                /\ Rejected => result = Ok /\ Count("prev_hook") = 1
                /\ planOutcome = "no_statement" =>
                     result = Panic /\ Count("prev_hook") = 0

\* an UPDATE on an embedded-engine relation that returned NotSupported::Update
C3_Witness ==
    /\ Returned
    /\ operation = "UPDATE"
    /\ HasEmbedded(rtable)
    /\ Count("create_logical_plan") = 1
    /\ result = Err("NotSupported::Update")

---------------------------------------------------------------------------
(* C4 *)

\* C4, as stated: a statement whose text the plan translator rejects has the
\* continuation invoked exactly once, no select or delete handler, and
\* success returned, for every operation and range table.
C4_RejectedTextAlwaysDelegated ==
    (Returned /\ Rejected) =>
        /\ Count("prev_hook") = 1
        /\ Count("select") + Count("delete") = 0
        /\ result = Ok

\* C4, amended: the same, for the calls in which neither the pending-write
\* check, the flush, the query string, the insert handler nor is_column
\* fails.
C4_RejectedTextDelegatedUnlessEarlyFailure ==
    (Returned /\ Rejected /\ ~EarlyFailed) =>
        /\ Count("prev_hook") = 1
        /\ Count("select") + Count("delete") = 0
        /\ result = Ok

\* the plan translator was called, rejected the text, and the continuation ran
C4_Witness ==
    /\ Returned
    /\ planOutcome = "parse_error"
    /\ failed = "create_logical_plan"
    /\ trace[Len(trace)] = "prev_hook"
    /\ result = Ok

---------------------------------------------------------------------------
(* C5 *)

\* C5, as stated, on the calls in which nothing fails: a statement whose
\* range table holds no embedded-engine relation has the continuation
\* invoked exactly once, no handler, and no call of the plan translator.
C5_NoEmbeddedOnlyDelegates ==
    (Returned /\ ~HasEmbedded(rtable) /\ failed = "none") =>
        /\ Count("prev_hook") = 1
        /\ HandlerCalls = 0
        /\ Count("create_logical_plan") = 0

---------------------------------------------------------------------------
(* C6 *)

\* the calls that execute the statement: the handlers, the plan translator
\* and the continuation
StatementCalls ==
    {"insert", "select", "delete", "create_logical_plan", "prev_hook"}

\* a flush was started and has ended before the call at place i of the trace
FlushedBefore(i) ==
    \E j \in 1..(i - 1) : \E k \in 1..(i - 1) :
        j < k /\ trace[j] = "commit_start" /\ trace[k] = "commit_end"

\* C6, as stated: when writes are pending at the call, exactly one flush is
\* started, and it has ended before any handler, the plan translator or the
\* continuation is invoked; when none are pending there is no flush; no call
\* flushes twice.
C6_PendingWritesAlwaysFlushed ==
    /\ Count("commit_start") <= 1
    /\ pendingAtEntry =>
         \A i \in 1..Len(trace) : trace[i] \in StatementCalls => FlushedBefore(i)
    /\ Returned =>
         Count("commit_start") = (IF pendingAtEntry THEN 1 ELSE 0)

\* C6, amended: when the pending-write check succeeds and reports pending
\* writes, exactly one flush is started, and it has ended before any handler,
\* the plan translator or the continuation is invoked; when the check
\* reports none, or fails, there is no flush; no call flushes twice.
C6_ReportedPendingWritesFlushed ==
    /\ Count("commit_start") <= 1
    /\ Count("commit_end") <= Count("commit_start")
    /\ pendingAtEntry =>
         \A i \in 1..Len(trace) : trace[i] \in StatementCalls => FlushedBefore(i)
    /\ Returned =>
         /\ Count("commit_start") =
              (IF pendingAtEntry /\ failed # "needs_commit" THEN 1 ELSE 0)
         /\ Count("commit_end") = Count("commit_start")

\* a SELECT issued while writes were pending: flushed, then handled
C6_Witness ==
    /\ Returned
    /\ pendingAtEntry
    /\ trace = <<"needs_commit", "commit_start", "commit_end",
                 "create_logical_plan", "select">>
    /\ ~pending

---------------------------------------------------------------------------
(* C7 *)

\* C7: when the pending-write check or the flush fails, the call returns
\* that failure at once: it is over, and it has invoked neither the
\* continuation, nor the plan translator, nor a handler.
C7_FlushFailureReturnedBeforeAnyQuery ==
    failed \in {"needs_commit", "commit_writer"} =>
        /\ Returned
        /\ result = Err(failed)
        /\ \A i \in 1..Len(trace) : trace[i] \notin StatementCalls

\* a call whose flush failed
C7_Witness ==
    /\ Returned
    /\ failed = "commit_writer"
    /\ trace = <<"needs_commit", "commit_start", "commit_end">>
    /\ result = Err("commit_writer")

---------------------------------------------------------------------------
(* C8 *)

\* C8, as stated: a statement whose text, lowercased and not trimmed, begins
\* with "copy" has the continuation invoked exactly once, success returned
\* and the plan translator never called, whatever the range table holds.
C8_CopyAlwaysDelegated ==
    (Returned /\ BeginsWithCopy) =>
        /\ Count("prev_hook") = 1
        /\ result = Ok
        /\ Count("create_logical_plan") = 0

\* C8, amended: the same, for the calls in which neither the pending-write
\* check, the flush, the query string, the insert handler nor is_column
\* fails.
C8_CopyDelegatedUnlessEarlyFailure ==
    (Returned /\ BeginsWithCopy /\ ~EarlyFailed) =>
        /\ Count("prev_hook") = 1
        /\ result = Ok
        /\ Count("create_logical_plan") = 0
        /\ Count("select") + Count("delete") = 0

\* "COPY t" on an embedded-engine relation, left to the continuation
C8_Witness ==
    /\ Returned
    /\ sourceText = <<"C", "O", "P", "Y", " ", "t">>
    /\ operation = "UTILITY"
    /\ HasEmbedded(rtable)
    /\ Count("prev_hook") = 1
    /\ result = Ok

---------------------------------------------------------------------------
(* C9 *)

\* C9: a failure of the select or of the delete handler, which run only
\* after the plan translator returned a plan, is what executor_run returns;
\* the continuation is not invoked.
C9_HandlerFailureReturned ==
    (Returned /\ failed \in {"select", "delete"}) =>
        /\ planOutcome = "plan"
        /\ Count("create_logical_plan") = 1
        /\ result = Err(failed)
        /\ result # Ok
        /\ Count("prev_hook") = 0

\* a DELETE whose handler failed
C9_Witness ==
    /\ Returned
    /\ operation = "DELETE"
    /\ failed = "delete"
    /\ Count("delete") = 1
    /\ result = Err("delete")

---------------------------------------------------------------------------
(* C10 *)

\* C10, as stated: the limit search() hands to the ranking collector is at
\* least 1, for every limit_rows, given or not, and every snapshot.
C10_EffectiveLimitAtLeastOne ==
    \A i \in 1..Len(collector) : collector[i].limit >= 1

---------------------------------------------------------------------------
(* C11 *)

\* C11: every search() of an instance uses, without limit_rows, the number N
\* of documents of its snapshot as the limit when N > 0 and 1 when the
\* snapshot is empty; the given limit_rows as it is; and as the offset the
\* given offset_rows, else 0, which the collector gets unless it rejected
\* the limit.
C11_EffectiveLimitAndOffset ==
    \A i \in 1..Len(collector) :
        /\ (config.limit_rows = <<>> /\ Cardinality(DOMAIN searcher) > 0) =>
               collector[i].limit = Cardinality(DOMAIN searcher)
        /\ (config.limit_rows = <<>> /\ Cardinality(DOMAIN searcher) = 0) =>
               collector[i].limit = 1
        /\ \A n \in 0..MaxLimit :
               config.limit_rows = <<n>> => collector[i].limit = n
        /\ collector[i].offset = <<>> <=> collector[i].limit = 0
        /\ collector[i].offset # <<>> =>
               /\ \A n \in 0..MaxOffset :
                      config.offset_rows = <<n>> => collector[i].offset = <<n>>
               /\ config.offset_rows = <<>> => collector[i].offset = <<0>>

\* a search without limit and offset on an empty snapshot: limit 1, offset 0
C11_Witness ==
    /\ sstate = "executed"
    /\ config.limit_rows = None
    /\ config.offset_rows = None
    /\ DOMAIN searcher = {}
    /\ collector = <<[limit |-> 1, offset |-> Some(0)]>>

---------------------------------------------------------------------------
(* C12 *)

\* the keys and addresses of a sequence of (score, address) entries
KeyAddr(entries) ==
    [i \in 1..Len(entries) |-> <<entries[i][1].key, entries[i][2]>>]

\* the place where the key k occurs first in the results of search()
FirstSeen(k) ==
    CHOOSE i \in 1..Len(results) :
        /\ results[i][1].key = k
        /\ \A j \in 1..(i - 1) : results[j][1].key # k

\* a is lexicographically at most b: segment first, then document id
LexAtMost(a, b) == a[1] < b[1] \/ (a[1] = b[1] /\ a[2] <= b[2])

\* C12: what search_dedup yields holds each key of the results of search()
\* exactly once, with the entry of the results that has the greatest address
\* among those of the key, and the keys come in the order in which they occur
\* first in the results.
C12_DedupKeepsGreatestAddressInFirstSeenOrder ==
    deduped # None =>
        LET out == deduped[1] IN
        /\ \A i \in 1..Len(out) : \A j \in 1..Len(out) :
               i # j => out[i][1].key # out[j][1].key
        /\ \A j \in 1..Len(results) :
               \E i \in 1..Len(out) : out[i][1].key = results[j][1].key
        /\ \A i \in 1..Len(out) :
               /\ \E j \in 1..Len(results) : results[j] = out[i]
               /\ \A j \in 1..Len(results) :
                      results[j][1].key = out[i][1].key =>
                          LexAtMost(results[j][2], out[i][2])
        /\ \A i \in 1..Len(out) : \A j \in 1..Len(out) :
               i < j => FirstSeen(out[i][1].key) < FirstSeen(out[j][1].key)

\* the ranked sequence [(5,(0,1)), (7,(0,2)), (5,(0,3))] yields
\* [(5,(0,3)), (7,(0,2))]
C12_Witness ==
    /\ deduped # None
    /\ KeyAddr(results) = <<<<5, <<0, 1>>>>, <<7, <<0, 2>>>>, <<5, <<0, 3>>>>>>
    /\ KeyAddr(deduped[1]) = <<<<5, <<0, 3>>>>, <<7, <<0, 2>>>>>>

---------------------------------------------------------------------------
(* C13 *)

\* the keys of a sequence of (score, address) entries
KeySet(entries) == {entries[i][1].key : i \in 1..Len(entries)}

\* C13: what search_dedup yields has no key twice, only keys of the results
\* of search(), and at most as many entries as those results.
C13_DedupNoDuplicatesSubsetShorter ==
    deduped # None =>
        /\ Cardinality(KeySet(deduped[1])) = Len(deduped[1])
        /\ KeySet(deduped[1]) \subseteq KeySet(results)
        /\ Len(deduped[1]) <= Len(results)

\* results with one key on two documents of different segments: one entry
\* is left, that of the later segment, which came second
C13_Witness ==
    /\ deduped # None
    /\ KeyAddr(results) = <<<<7, <<0, 3>>>>, <<7, <<1, 0>>>>>>
    /\ KeyAddr(deduped[1]) = <<<<7, <<1, 0>>>>>>

---------------------------------------------------------------------------
(* C14 *)

\* C14, as stated: on one instance at most one search() or search_dedup() is
\* ever executed.
C14_AtMostOneSearchPerInstance == Len(collector) <= 1

---------------------------------------------------------------------------
(* C15 *)

\* C15: while a SearchState lives, no step changes its snapshot, its
\* config, its compiled query or its key-field name: not key_field_value,
\* search, search_dedup or doc, and not a writer's commit to the index.
C15_SnapshotNeverChanges ==
    [][(sstate # "none" /\ sstate' # "none") =>
           /\ searcher' = searcher
           /\ config' = config
           /\ compiled' = compiled
           /\ key_field_name' = key_field_name]_vars

\* an instance whose snapshot is behind the index, after a search_dedup and
\* a key_field_value
C15_Witness ==
    /\ sstate = "executed"
    /\ deduped # None
    /\ fetched.op = "key_field_value"
    /\ Cardinality(DOMAIN searcher) = 1
    /\ Cardinality(DOMAIN index) = 2
    /\ Len(results) = 1

---------------------------------------------------------------------------
(* C16 *)

\* C16: with a query that does not compile, SearchState::new aborts: there
\* is no instance (no compiled query, no bound snapshot), and no search is
\* executed for that config, by this or by another query.
C16_CompileFailureAborts ==
    (sstate # "none" /\ config.query = "invalid") =>
        /\ sstate = "new_panicked"
        /\ compiled = None
        /\ searcher = <<>>
        /\ key_field_name = ""
        /\ collector = <<>>
        /\ results = <<>>
        /\ deduped = None

\* SearchState::new aborted on an index that holds documents
C16_Witness ==
    /\ sstate = "new_panicked"
    /\ config.query = "invalid"
    /\ Cardinality(DOMAIN index) = 2

---------------------------------------------------------------------------
(* C17 *)

\* the call got a plan from the plan translator, and with it to line 69
ReachedDispatch == Count("create_logical_plan") = 1 /\ planOutcome = "plan"

\* C17: a call that reaches the dispatch has a range table with an
\* embedded-engine relation, an operation other than INSERT and a text that
\* does not begin with "copy"; there a SELECT invokes the select handler,
\* once, and nothing else; a DELETE the delete handler, once, and nothing
\* else; an operation other than SELECT, DELETE and UPDATE the continuation,
\* once, and no handler, and success is returned.
C17_DispatchByOperation ==
    (Returned /\ ReachedDispatch) =>
        /\ HasEmbedded(rtable)
        /\ operation # "INSERT"
        /\ ~BeginsWithCopy
        /\ operation = "SELECT" =>
               /\ Count("select") = 1
               /\ trace[Len(trace)] = "select"
               /\ Count("delete") + Count("insert") + Count("prev_hook") = 0
        /\ operation = "DELETE" =>
               /\ Count("delete") = 1
               /\ trace[Len(trace)] = "delete"
               /\ Count("select") + Count("insert") + Count("prev_hook") = 0
        /\ operation \notin {"SELECT", "DELETE", "UPDATE"} =>
               /\ Count("prev_hook") = 1
               /\ trace[Len(trace)] = "prev_hook"
               /\ HandlerCalls = 0
               /\ result = Ok

\* a statement of another kind that got a plan and was left to the
\* continuation
C17_Witness ==
    /\ Returned
    /\ operation = "UTILITY"
    /\ planOutcome = "plan"
    /\ trace = <<"needs_commit", "create_logical_plan", "prev_hook">>
    /\ result = Ok

---------------------------------------------------------------------------
(* C18 *)

\* C18: in every call of a session, when the select or the delete handler
\* is invoked no write is pending: the writes that were pending when the
\* call began have been committed by a flush that ended before the handler.
C18_NoPendingWritesAtRead ==
    \A i \in 1..Len(trace) :
        trace[i] \in {"select", "delete"} =>
            /\ ~pending
            /\ pendingAtEntry => (flush = "done" /\ FlushedBefore(i))

\* a DELETE issued after an INSERT of the session left writes in the buffer
C18_Witness ==
    /\ Returned
    /\ pendingAtEntry
    /\ operation = "DELETE"
    /\ trace = <<"needs_commit", "commit_start", "commit_end",
                 "create_logical_plan", "delete">>
    /\ flush = "done"
    /\ ~pending

---------------------------------------------------------------------------
(* C19 *)

\* C19, as stated: a call of the plan translator ends with a plan or with an
\* error that executor_run answers by the continuation and success; it
\* never aborts, whatever the text.
C19_PlanTranslatorTotal ==
    (Returned /\ Count("create_logical_plan") >= 1) =>
        /\ result # Panic
        /\ planOutcome # "plan" => (Count("prev_hook") = 1 /\ result = Ok)

====
